---- MODULE Spec2Model ----
\* Model of cloudroast's object-storage fixture (feature resolution, the
\* required-features gate, authentication, temporary containers) and of the
\* update-image test scenarios.
\*
\* The strings of the feature code are byte strings or unicode strings, each a
\* sequence of character codes, so that split(), join(), unicode() and == are
\* computed character by character.  A feature token is a string without
\* whitespace.  The strategy names of the authentication part are sequences
\* of one-character strings.
EXTENDS Integers, Sequences, FiniteSets, TLC

VARIABLES
    cfg_features,        \* ObjectStorageAPIConfig().features
    cfg_excluded,        \* ObjectStorageAPIConfig().excluded_features
    cfg_use_swift_info,  \* ObjectStorageAPIConfig().use_swift_info
    featCache,           \* cache of the memoized get_features, keyed by cls
    gateCache,           \* cache of the memoized required_features, keyed by <<cls, reqs>>
    last,                \* the call that completed last and how it ended
    cfg_strategy,        \* UserAuthConfig().strategy
    authCache,           \* cache of the memoized AuthComposite.authenticate
    providerCalls,       \* calls of AuthProvider.get_access_data so far
    fixture,             \* per test class: what setUpClass left on the class
    authLast,            \* the setUpClass call that completed last
    server,              \* names of the containers that exist on the server
    cleanups,            \* the test's cleanup stack (addCleanup), oldest first
    attempted,           \* names whose cleanup has run
    named,               \* number of container names generated so far
    testPhase,           \* "running", "cleanup" or "done"
    imgScenario,         \* which update-image test runs
    imgValues,           \* <<new_prop_value, updated_new_prop_value>>
    imgPc,               \* position in the test's script
    imgResponses,        \* the responses of update_image so far
    imgVerdict           \* "running", "passed", "failed"

featVars == <<cfg_features, cfg_excluded, cfg_use_swift_info, featCache, gateCache, last>>
authVars == <<cfg_strategy, authCache, providerCalls, fixture, authLast>>
contVars == <<server, cleanups, attempted, named, testPhase>>
imgVars == <<imgScenario, imgValues, imgPc, imgResponses, imgVerdict>>
vars == <<featVars, authVars, contVars, imgVars>>

-----------------------------------------------------------------------------
\* Strings

\* A Python 2 string: a byte string (str) or a unicode string, with its
\* characters as numbers: the bytes 0..255 of a byte string, the code points
\* of a unicode string.
Str(chars) == [isUnicode |-> FALSE, chars |-> chars]
Unicode(chars) == [isUnicode |-> TRUE, chars |-> chars]

\* ' '
SP == Str(<<32>>)

\* The two sentinels of ObjectStorageAPIConfig, with the values cloudcafe gives
\* them ('all' and 'no_features'); the code only compares strings with them.
ALL_FEATURES == Str(<<97, 108, 108>>)
NO_FEATURES == Str(<<110, 111, 95, 102, 101, 97, 116, 117, 114, 101, 115>>)

EmptyStr == <<>>
\* 'a', 'b', 'c'
Tok_a == <<97>>
Tok_b == <<98>>
Tok_c == <<99>>

Range(s) == {s[i] : i \in 1..Len(s)}

\* The characters of a list of strings.
Chars(list) == {list[i].chars : i \in 1..Len(list)}

\* What the ascii codec decodes and encodes: 0..127.
IsAscii(x) == \A i \in 1..Len(x.chars) : x.chars[i] < 128

\* unicode(x): a unicode string as it is, a byte string decoded with the
\* ascii codec; ~ok stands for UnicodeDecodeError.
unicode(x) ==
    IF x.isUnicode THEN [ok |-> TRUE, value |-> x]
    ELSE IF IsAscii(x) THEN [ok |-> TRUE, value |-> Unicode(x.chars)]
    ELSE [ok |-> FALSE, value |-> x]

\* a == b on strings: a byte string equals a unicode string when it decodes
\* (ascii) to it.
eq(a, b) == a.chars = b.chars /\ (a.isUnicode = b.isUnicode \/ IsAscii(a))

\* The separators of str.split(): \t, \n, \x0b, \x0c, \r and the space.
StrWhitespace == {9, 10, 11, 12, 13, 32}

\* The separators of unicode.split(): those, \x1c-\x1f, \x85, \xa0, U+1680,
\* U+180E, U+2000-U+200A, U+2028, U+2029, U+202F, U+205F and U+3000.
UnicodeWhitespace ==
    StrWhitespace \cup {28, 29, 30, 31, 133, 160, 5760, 6158} \cup (8192..8202)
        \cup {8232, 8233, 8239, 8287, 12288}

Whitespace(x) == IF x.isUnicode THEN UnicodeWhitespace ELSE StrWhitespace

\* split() without arguments on the characters s with the separators ws: the
\* maximal runs of other characters, in order; leading, trailing and
\* repeated separators yield no empty token.
RECURSIVE SplitFrom(_, _, _, _, _)
SplitFrom(s, ws, i, cur, acc) ==
    IF i > Len(s)
    THEN IF cur = <<>> THEN acc ELSE Append(acc, cur)
    ELSE IF s[i] \in ws
         THEN SplitFrom(s, ws, i + 1, <<>>, IF cur = <<>> THEN acc ELSE Append(acc, cur))
         ELSE SplitFrom(s, ws, i + 1, Append(cur, s[i]), acc)

\* x.split(): the tokens are strings of x's type.
Split(x) ==
    LET toks == SplitFrom(x.chars, Whitespace(x), 1, <<>>, <<>>)
    IN  [i \in 1..Len(toks) |-> [isUnicode |-> x.isUnicode, chars |-> toks[i]]]

RECURSIVE JoinChars(_, _)
JoinChars(sep, list) ==
    IF list = <<>> THEN <<>>
    ELSE IF Len(list) = 1 THEN list[1].chars
    ELSE list[1].chars \o sep \o JoinChars(sep, Tail(list))

\* sep.join(list) for a byte string sep: a byte string when every item is
\* one, else a unicode string, the byte strings among the items decoded with
\* the ascii codec; ~ok stands for UnicodeDecodeError.
JoinWith(sep, list) ==
    IF \A i \in 1..Len(list) : ~list[i].isUnicode
    THEN [ok |-> TRUE, value |-> Str(JoinChars(sep.chars, list))]
    ELSE IF \A i \in 1..Len(list) : list[i].isUnicode \/ IsAscii(list[i])
    THEN [ok |-> TRUE, value |-> Unicode(JoinChars(sep.chars, list))]
    ELSE [ok |-> FALSE, value |-> Str(EmptyStr)]

\* list.index(x): the first position of x, 0 standing for ValueError
Index(list, x) ==
    IF \E i \in 1..Len(list) : eq(list[i], x)
    THEN CHOOSE i \in 1..Len(list) : eq(list[i], x) /\ \A j \in 1..(i - 1) : ~eq(list[j], x)
    ELSE 0

\* list.pop(index)
Pop(list, i) == SubSeq(list, 1, i - 1) \o SubSeq(list, i + 1, Len(list))

\* set(a) | set(b): the members of a, and those of b that equal none of a.
SetUnion(a, b) == Range(a) \cup {y \in Range(b) : \A x \in Range(a) : ~eq(x, y)}

\* The orders in which list(set) may enumerate a set.
Orders(S) == {q \in [1..Cardinality(S) -> S] : \A i, j \in 1..Cardinality(S) : q[i] = q[j] => i = j}

-----------------------------------------------------------------------------
\* Inputs

\* The configuration file gives byte strings: 'all', '', 'a b', and the two
\* bytes of a UTF-8 e-acute.
FeatureStrings == {ALL_FEATURES, Str(EmptyStr), Str(<<97, 32, 98>>), Str(<<195, 169>>)}
\* 'all', '', 'c', 'c\x1c a\x0bc', and 'c' with the bytes of an e-acute.
ExcludedStrings ==
    {ALL_FEATURES, Str(EmptyStr), Str(<<99>>), Str(<<99, 28, 32, 97, 11, 99>>),
     Str(<<99, 195, 169>>)}
\* What swift reports: u'\u1680b c\x1d\tb', and the byte strings 'b\x1cc' and
\* 'b' followed by a space and the bytes of an e-acute.
ReportedStrings ==
    {Unicode(<<5760, 98, 32, 99, 29, 9, 98>>), Str(<<98, 28, 99>>),
     Str(<<98, 32, 195, 169>>)}
Classes == {"ObjectStorageFixture", "Subclass"}
\* (), ('a', u'c'), (u'\u20ac',)
ReqLists == {<<>>, <<Str(Tok_a), Unicode(Tok_c)>>, <<Unicode(<<8364>>)>>}

\* Inputs of the runs in which the configuration changes between calls.
DriftConfigs ==
    {<<Str(<<97, 32, 98>>), Str(<<99>>), TRUE>>, <<Str(EmptyStr), ALL_FEATURES, FALSE>>,
     <<ALL_FEATURES, Str(EmptyStr), TRUE>>}
DriftReqLists == ReqLists

\* What behaviors.get_swift_features() does: return a string or raise.
SwiftReplies ==
    {[ok |-> TRUE, body |-> s] : s \in ReportedStrings}
        \cup {[ok |-> FALSE, body |-> Str(EmptyStr)]}

-----------------------------------------------------------------------------
\* get_features

\* The value of split_features, or the exception it raises.  A list never
\* equals a string in Python, so the two are kept apart by isList.
SplitString(s) ==
    [outcome |-> "return", error |-> "", isList |-> FALSE, str |-> s, list |-> <<>>]
SplitList(l) ==
    [outcome |-> "return", error |-> "", isList |-> TRUE, str |-> Str(EmptyStr), list |-> l]
SplitRaised(e) ==
    [outcome |-> "raise", error |-> e, isList |-> FALSE, str |-> Str(EmptyStr), list |-> <<>>]

\* split_features: the string itself for the sentinel, else the tokens of
\* unicode(features).
split_features(features) ==
    IF eq(features, ALL_FEATURES)
    THEN SplitString(features)
    ELSE LET u == unicode(features)
         IN  IF u.ok THEN SplitList(Split(u.value)) ELSE SplitRaised("UnicodeDecodeError")

IsAllFeatures(v) == ~v.isList /\ eq(v.str, ALL_FEATURES)

\* for feature in excluded_features: try: features.pop(features.index(feature))
\*                                    except ValueError: pass
RECURSIVE RemoveExcluded(_, _)
RemoveExcluded(features, excluded) ==
    IF excluded = <<>> THEN features
    ELSE LET i == Index(features, Head(excluded))
         IN  RemoveExcluded(IF i = 0 THEN features ELSE Pop(features, i), Tail(excluded))

\* How one evaluation ended.  fetch tells what became of the call to the
\* server: "none" (not attempted), "ok" or "failed".
Returned(s, reported, fetch) ==
    [outcome |-> "return", features |-> s, error |-> "", reported |-> reported,
     fetch |-> fetch]
Raised(e, fetch) ==
    [outcome |-> "raise", features |-> Str(EmptyStr), error |-> e, reported |-> <<>>,
     fetch |-> fetch]

\* return ' '.join(features)
ReturnJoined(features, reported, fetch) ==
    LET joined == JoinWith(SP, features)
    IN  IF joined.ok
        THEN Returned(joined.value, reported, fetch)
        ELSE Raised("UnicodeDecodeError", fetch)

\* Variant: excluded_features == ALL_FEATURES is not looked at.
resolve_features_no_exclude_all(features_cfg, excluded_cfg, reported_features, fetch) ==
    LET features == split_features(features_cfg)
        excluded_features == split_features(excluded_cfg)
    IN  IF features.outcome = "raise"
        THEN {Raised(features.error, fetch)}
        ELSE IF excluded_features.outcome = "raise"
        THEN {Raised(excluded_features.error, fetch)}
        ELSE IF IsAllFeatures(features)
        THEN {Returned(features.str, reported_features, fetch)}
        ELSE {ReturnJoined(RemoveExcluded(order, excluded_features.list),
                           reported_features, fetch) :
                   order \in Orders(SetUnion(reported_features, features.list))}

\* The body of get_features once reported_features is known (lines 110-137):
\* both settings are split, and either split may raise, before the sentinels
\* are looked at.  list(set | set) enumerates the union in an order the code
\* does not choose.
resolve_features(features_cfg, excluded_cfg, reported_features, fetch) ==
    LET features == split_features(features_cfg)
        excluded_features == split_features(excluded_cfg)
    IN  IF features.outcome = "raise"
        THEN {Raised(features.error, fetch)}
        ELSE IF excluded_features.outcome = "raise"
        THEN {Raised(excluded_features.error, fetch)}
        ELSE IF IsAllFeatures(features)
        THEN {Returned(features.str, reported_features, fetch)}
        ELSE IF IsAllFeatures(excluded_features)
        THEN {Returned(NO_FEATURES, reported_features, fetch)}
        ELSE {ReturnJoined(RemoveExcluded(order, excluded_features.list),
                           reported_features, fetch) :
                   order \in Orders(SetUnion(reported_features, features.list))}

\* The inner get_swift_features.  ObjectStorageFixture.get_auth_data() (line
\* 94) is called outside the try: when it raises (authOk false), its
\* exception, here "AuthDataError", leaves get_features as it is.  Only the
\* server call is inside the try, whose except clause raises SwiftInfoError.
get_swift_features(authOk, reply) ==
    IF ~authOk
    THEN [outcome |-> "raise", error |-> "AuthDataError", list |-> <<>>, fetch |-> "none"]
    ELSE IF ~reply.ok
    THEN [outcome |-> "raise", error |-> "SwiftInfoError", list |-> <<>>, fetch |-> "failed"]
    ELSE [outcome |-> "return", error |-> "", list |-> Split(reply.body), fetch |-> "ok"]

\* The possible results of one evaluation of get_features' body.
get_features(features_cfg, excluded_cfg, use_swift_info, authOk, reply) ==
    IF use_swift_info
    THEN LET r == get_swift_features(authOk, reply)
         IN  IF r.outcome = "raise"
             THEN {Raised(r.error, r.fetch)}
             ELSE resolve_features(features_cfg, excluded_cfg, r.list, r.fetch)
    ELSE resolve_features(features_cfg, excluded_cfg, <<>>, "none")

-----------------------------------------------------------------------------
\* required_features

\* 'skipping all features'
SkipAllReason ==
    <<115, 107, 105, 112, 112, 105, 110, 103, 32, 97, 108, 108, 32, 102, 101, 97, 116, 117, 114, 101, 115>>
\* 'requires features: '
RequiresPrefix ==
    <<114, 101, 113, 117, 105, 114, 101, 115, 32, 102, 101, 97, 116, 117, 114, 101, 115, 58, 32>>
\* ', '
CommaSpace == Str(<<44, 32>>)

\* lambda func: func
PassThrough == [skip |-> FALSE, reason |-> EmptyStr]
\* unittest.skip(reason); reason is a byte string, kept as its characters
Skip(reason) == [skip |-> TRUE, reason |-> reason]

\* How the body of required_features ended.
GateReturned(d) == [outcome |-> "return", decorator |-> d, error |-> ""]
GateRaised(e) == [outcome |-> "raise", decorator |-> PassThrough, error |-> e]

\* unittest.skip('requires features: {0}'.format(', '.join(tokens))): the
\* join raises UnicodeDecodeError as JoinWith tells, and format encodes a
\* unicode argument with the ascii codec.
SkipRequires(tokens) ==
    LET joined == JoinWith(CommaSpace, tokens)
    IN  IF ~joined.ok THEN GateRaised("UnicodeDecodeError")
        ELSE IF joined.value.isUnicode /\ ~IsAscii(joined.value)
        THEN GateRaised("UnicodeEncodeError")
        ELSE GateReturned(Skip(RequiresPrefix \o joined.value.chars))

\* req in features
Contains(list, x) == \E j \in 1..Len(list) : eq(list[j], x)

\* Variant: the reason names the missing tokens only.
required_features_lists_missing(features, reqs) ==
    IF eq(features, ALL_FEATURES) THEN GateReturned(PassThrough)
    ELSE IF eq(features, NO_FEATURES) THEN GateReturned(Skip(SkipAllReason))
    ELSE LET list == Split(features)
             missing == SelectSeq(reqs, LAMBDA r : ~Contains(list, r))
         IN  IF missing # <<>>
             THEN SkipRequires(missing)
             ELSE GateReturned(PassThrough)

\* The body of required_features after the call to get_features (lines
\* 160-177).
required_features(features, reqs) ==
    IF eq(features, ALL_FEATURES) THEN GateReturned(PassThrough)
    ELSE IF eq(features, NO_FEATURES) THEN GateReturned(Skip(SkipAllReason))
    ELSE LET list == Split(features)
             missing_reqs == \E i \in 1..Len(reqs) : ~Contains(list, reqs[i])
         IN  IF missing_reqs
             THEN SkipRequires(reqs)
             ELSE GateReturned(PassThrough)

\* Variant: the gate asks the class it is called on.
features_class_of_caller(cls) == cls

\* The class whose get_features the gate calls (line 158):
\* ObjectStorageFixture, whatever cls is.
features_class(cls) == "ObjectStorageFixture"

-----------------------------------------------------------------------------
\* The memoized decorator (cafe.drivers.unittest.decorators): a cache per
\* decorated function, keyed by the call's arguments, the class first, as the
\* spec has it ("memoized per test class", "written once"); a call that
\* raises stores nothing.

NotCached == [cached |-> FALSE, features |-> Str(EmptyStr), decorator |-> PassThrough]
CachedFeatures(s) == [cached |-> TRUE, features |-> s, decorator |-> PassThrough]
CachedDecorator(d) == [cached |-> TRUE, features |-> Str(EmptyStr), decorator |-> d]

memo_hit(cache, key) == cache[key].cached

GateKeys == Classes \X ReqLists

NoCall ==
    [op |-> "none", cls |-> "", reqs |-> <<>>, outcome |-> "none",
     features |-> Str(EmptyStr), decorator |-> PassThrough, error |-> "",
     reported |-> <<>>, fetch |-> "none", computed |-> FALSE]

FeaturesCall(cls, r, computed) ==
    [op |-> "get_features", cls |-> cls, reqs |-> <<>>, outcome |-> r.outcome,
     features |-> r.features, decorator |-> PassThrough, error |-> r.error,
     reported |-> r.reported, fetch |-> r.fetch, computed |-> computed]

\* r is how get_features ended, g how the rest of the body did.
GateCall(cls, reqs, r, g, computed) ==
    [op |-> "required_features", cls |-> cls, reqs |-> reqs,
     outcome |-> IF r.outcome = "raise" THEN "raise" ELSE g.outcome,
     features |-> r.features, decorator |-> g.decorator,
     error |-> IF r.outcome = "raise" THEN r.error ELSE g.error,
     reported |-> r.reported, fetch |-> r.fetch, computed |-> computed]

FeatIdle ==
    /\ cfg_features = Str(EmptyStr)
    /\ cfg_excluded = Str(EmptyStr)
    /\ cfg_use_swift_info = FALSE
    /\ featCache = [c \in Classes |-> NotCached]
    /\ gateCache = [k \in GateKeys |-> NotCached]
    /\ last = NoCall

FeatInit ==
    /\ cfg_features \in FeatureStrings
    /\ cfg_excluded \in ExcludedStrings
    /\ cfg_use_swift_info \in BOOLEAN
    /\ featCache = [c \in Classes |-> NotCached]
    /\ gateCache = [k \in GateKeys |-> NotCached]
    /\ last = NoCall

\* cls.get_features()
GetFeatures(cls) ==
    /\ IF memo_hit(featCache, cls)
       THEN /\ last' = FeaturesCall(cls, Returned(featCache[cls].features, <<>>, "none"), FALSE)
            /\ UNCHANGED featCache
       ELSE \E authOk \in BOOLEAN, reply \in SwiftReplies :
              \E r \in get_features(cfg_features, cfg_excluded, cfg_use_swift_info, authOk, reply) :
                 /\ last' = FeaturesCall(cls, r, TRUE)
                 /\ featCache' = IF r.outcome = "return"
                                 THEN [featCache EXCEPT ![cls] = CachedFeatures(r.features)]
                                 ELSE featCache
    /\ UNCHANGED <<cfg_features, cfg_excluded, cfg_use_swift_info, gateCache>>
    /\ UNCHANGED <<authVars, contVars, imgVars>>

\* cls.required_features(*reqs); its body calls
\* ObjectStorageFixture.get_features(), whose value stays cached when the
\* rest of the body raises.
RequiredFeatures(cls, reqs) ==
    LET key == <<cls, reqs>>
        base == features_class(cls)
    IN
    /\ IF memo_hit(gateCache, key)
       THEN /\ last' = GateCall(cls, reqs, Returned(Str(EmptyStr), <<>>, "none"),
                                GateReturned(gateCache[key].decorator), FALSE)
            /\ UNCHANGED <<featCache, gateCache>>
       ELSE IF memo_hit(featCache, base)
       THEN LET g == required_features(featCache[base].features, reqs)
            IN  /\ last' = GateCall(cls, reqs, Returned(featCache[base].features, <<>>, "none"),
                                    g, FALSE)
                /\ gateCache' = IF g.outcome = "return"
                                THEN [gateCache EXCEPT ![key] = CachedDecorator(g.decorator)]
                                ELSE gateCache
                /\ UNCHANGED featCache
       ELSE \E authOk \in BOOLEAN, reply \in SwiftReplies :
              \E r \in get_features(cfg_features, cfg_excluded, cfg_use_swift_info, authOk, reply) :
                 IF r.outcome = "return"
                 THEN LET g == required_features(r.features, reqs)
                      IN  /\ last' = GateCall(cls, reqs, r, g, TRUE)
                          /\ featCache' = [featCache EXCEPT ![base] = CachedFeatures(r.features)]
                          /\ gateCache' = IF g.outcome = "return"
                                          THEN [gateCache EXCEPT
                                                    ![key] = CachedDecorator(g.decorator)]
                                          ELSE gateCache
                 ELSE /\ last' = GateCall(cls, reqs, r, GateRaised(r.error), TRUE)
                      /\ UNCHANGED <<featCache, gateCache>>
    /\ UNCHANGED <<cfg_features, cfg_excluded, cfg_use_swift_info>>
    /\ UNCHANGED <<authVars, contVars, imgVars>>

\* The configuration file or the server's features change between calls.
Reconfigure ==
    /\ \E c \in DriftConfigs \ {<<cfg_features, cfg_excluded, cfg_use_swift_info>>} :
          /\ cfg_features' = c[1]
          /\ cfg_excluded' = c[2]
          /\ cfg_use_swift_info' = c[3]
    /\ UNCHANGED <<featCache, gateCache, last>>
    /\ UNCHANGED <<authVars, contVars, imgVars>>

-----------------------------------------------------------------------------
\* Authentication (AuthComposite, ObjectStorageAuthComposite, setUpClass)

UpperCase == <<"A","B","C","D","E","F","G","H","I","J","K","L","M",
               "N","O","P","Q","R","S","T","U","V","W","X","Y","Z">>
LowerCase == <<"a","b","c","d","e","f","g","h","i","j","k","l","m",
               "n","o","p","q","r","s","t","u","v","w","x","y","z">>

\* str.lower()
Lower(s) ==
    [i \in 1..Len(s) |->
        IF \E k \in 1..Len(UpperCase) : UpperCase[k] = s[i]
        THEN LowerCase[CHOOSE k \in 1..Len(UpperCase) : UpperCase[k] = s[i]]
        ELSE s[i]]

SaioTempauth == <<"s","a","i","o","_","t","e","m","p","a","u","t","h">>
SaioTempauthMixed == <<"S","A","I","O","_","T","e","m","p","A","u","t","h">>
Keystone == <<"k","e","y","s","t","o","n","e">>
SaioTempauthV2 == <<"s","a","i","o","_","t","e","m","p","a","u","t","h","2">>
Strategies == {SaioTempauth, SaioTempauthMixed, Keystone, SaioTempauthV2}

\* self.endpoint_config.strategy.lower() == 'saio_tempauth'
is_saio_tempauth(strategy) == Lower(strategy) = SaioTempauth

\* The configured identity service and region (ObjectStorageConfig).
IdentityServiceName == "cloudFiles"
Region == "ORD"

\* Access data as the provider returns it: its own storage_url and
\* auth_token, its token id and its service catalog, a set of
\* <<service name, region, public_url>>.
AccessDatas ==
    {[storage_url |-> "saio_url_1", auth_token |-> "saio_token_1", token_id |-> "token_id_1",
      catalog |-> {<<"cloudFiles", "ORD", "public_url_1">>}],
     [storage_url |-> "saio_url_2", auth_token |-> "saio_token_2", token_id |-> "token_id_2",
      catalog |-> {<<"cloudFiles", "DFW", "public_url_2">>}],
     [storage_url |-> "saio_url_3", auth_token |-> "saio_token_3", token_id |-> "token_id_3",
      catalog |-> {}]}
NoAccessData ==
    [storage_url |-> "None", auth_token |-> "None", token_id |-> "None", catalog |-> {}]

\* AuthProvider.get_access_data(): access data or None
ProviderReplies == [isNone : {FALSE}, data : AccessDatas] \cup {[isNone |-> TRUE, data |-> NoAccessData]}

\* Test classes whose setUpClass runs.
NumClasses == 3
TestClasses == 1..NumClasses

\* access_data.get_service(name).get_endpoint(region).public_url, "None"
\* standing for a service or an endpoint that is not there
public_url(data, name, region) ==
    IF \E e \in data.catalog : e[1] = name /\ e[2] = region
    THEN (CHOOSE e \in data.catalog : e[1] = name /\ e[2] = region)[3]
    ELSE "None"

\* ObjectStorageAuthComposite.__init__ after authenticate() returned data:
\* the object's storage_url and auth_token, or the AttributeError of a
\* missing service or endpoint.
auth_composite(strategy, data) ==
    IF is_saio_tempauth(strategy)
    THEN [outcome |-> "return", error |-> "", storage_url |-> data.storage_url,
          auth_token |-> data.auth_token]
    ELSE IF public_url(data, IdentityServiceName, Region) = "None"
    THEN [outcome |-> "raise", error |-> "AttributeError", storage_url |-> "None",
          auth_token |-> "None"]
    ELSE [outcome |-> "return", error |-> "", storage_url |-> public_url(data, IdentityServiceName, Region),
          auth_token |-> data.token_id]

\* Variant: None is handed on as access data.
authenticate_unchecked(reply) ==
    [outcome |-> "return", error |-> "", data |-> reply.data]

\* AuthComposite.authenticate's body, given what the provider returned
authenticate(reply) ==
    IF reply.isNone
    THEN [outcome |-> "raise", error |-> "AssertionError", data |-> NoAccessData]
    ELSE [outcome |-> "return", error |-> "", data |-> reply.data]

NewClass == [state |-> "new", storage_url |-> "None", auth_token |-> "None"]
NoSetup ==
    [cls |-> 0, outcome |-> "none", error |-> "", gotNone |-> FALSE, calls |-> 0,
     data |-> NoAccessData, storage_url |-> "None", auth_token |-> "None"]

AuthIdle ==
    /\ cfg_strategy = SaioTempauth
    /\ authCache = [cached |-> FALSE, data |-> NoAccessData]
    /\ providerCalls = 0
    /\ fixture = [c \in TestClasses |-> NewClass]
    /\ authLast = NoSetup

AuthInit ==
    /\ cfg_strategy \in Strategies
    /\ authCache = [cached |-> FALSE, data |-> NoAccessData]
    /\ providerCalls = 0
    /\ fixture = [c \in TestClasses |-> NewClass]
    /\ authLast = NoSetup

\* What setUpClass does with the result a of authenticate(): build the
\* composite and copy its storage_url and auth_token onto the class.
FinishSetup(cls, a, gotNone, calls) ==
    LET o == IF a.outcome = "raise"
             THEN [outcome |-> "raise", error |-> a.error, storage_url |-> "None",
                   auth_token |-> "None"]
             ELSE auth_composite(cfg_strategy, a.data)
    IN  /\ authLast' = [cls |-> cls, outcome |-> o.outcome, error |-> o.error,
                        gotNone |-> gotNone, calls |-> calls, data |-> a.data,
                        storage_url |-> o.storage_url, auth_token |-> o.auth_token]
        /\ fixture' = [fixture EXCEPT ![cls] =
                          IF o.outcome = "return"
                          THEN [state |-> "ready", storage_url |-> o.storage_url,
                                auth_token |-> o.auth_token]
                          ELSE [state |-> "failed", storage_url |-> "None",
                                auth_token |-> "None"]]

\* ObjectStorageFixture.setUpClass of one test class, up to cls.auth_token
SetUpClass(cls) ==
    /\ fixture[cls].state = "new"
    /\ IF authCache.cached
       THEN /\ FinishSetup(cls, [outcome |-> "return", error |-> "", data |-> authCache.data],
                           FALSE, 0)
            /\ UNCHANGED <<authCache, providerCalls>>
       ELSE \E reply \in ProviderReplies :
              LET a == authenticate(reply)
              IN  /\ providerCalls' = providerCalls + 1
                  /\ authCache' = IF a.outcome = "return"
                                  THEN [cached |-> TRUE, data |-> a.data]
                                  ELSE authCache
                  /\ FinishSetup(cls, a, reply.isNone, 1)
    /\ UNCHANGED cfg_strategy
    /\ UNCHANGED <<featVars, contVars, imgVars>>

AuthNext == \E cls \in TestClasses : SetUpClass(cls)

-----------------------------------------------------------------------------
\* Temporary containers (create_temp_container and the test's cleanups)

MaxContainers == 3

\* What client.create_container can do: the server creates the container or
\* not, and the call returns a response or raises (a timeout or a broken
\* connection after the request was sent).
CreateOutcomes == [created : BOOLEAN, raised : BOOLEAN]

ContIdle ==
    /\ server = {}
    /\ cleanups = <<>>
    /\ attempted = {}
    /\ named = 0
    /\ testPhase = "running"

\* self.create_temp_container(): generate a name, create the container, then
\* register force_delete_containers([name]).  An exception of create_container
\* leaves the method before addCleanup and ends the test body.
CreateTempContainer ==
    /\ testPhase = "running"
    /\ named < MaxContainers
    /\ LET container_name == named + 1
       IN  \E o \in CreateOutcomes :
             /\ named' = container_name
             /\ server' = IF o.created THEN server \cup {container_name} ELSE server
             /\ cleanups' = IF o.raised THEN cleanups ELSE Append(cleanups, container_name)
             /\ testPhase' = IF o.raised THEN "cleanup_after_error" ELSE testPhase
    /\ UNCHANGED attempted
    /\ UNCHANGED <<featVars, authVars, imgVars>>

\* The test body ends, by passing or by a failed assertion.
EndTest ==
    /\ testPhase = "running"
    /\ testPhase' \in {"cleanup_after_pass", "cleanup_after_failure"}
    /\ UNCHANGED <<server, cleanups, attempted, named>>
    /\ UNCHANGED <<featVars, authVars, imgVars>>

CleaningUp == testPhase \in {"cleanup_after_pass", "cleanup_after_failure", "cleanup_after_error"}

\* doCleanups: the cleanup registered last runs first;
\* force_delete_containers deletes the container, or fails to.
RunCleanup ==
    /\ CleaningUp
    /\ cleanups # <<>>
    /\ LET container_name == cleanups[Len(cleanups)]
       IN  /\ cleanups' = SubSeq(cleanups, 1, Len(cleanups) - 1)
           /\ attempted' = attempted \cup {container_name}
           /\ \E deleted \in BOOLEAN :
                 server' = IF deleted THEN server \ {container_name} ELSE server
    /\ UNCHANGED <<named, testPhase>>
    /\ UNCHANGED <<featVars, authVars, imgVars>>

FinishCleanups ==
    /\ CleaningUp
    /\ cleanups = <<>>
    /\ testPhase' = "done"
    /\ UNCHANGED <<server, cleanups, attempted, named>>
    /\ UNCHANGED <<featVars, authVars, imgVars>>

ContNext ==
    \/ CreateTempContainer
    \/ EndTest
    \/ RunCleanup
    \/ FinishCleanups

-----------------------------------------------------------------------------
\* The update-image tests (TestUpdateImagePositive)

OK == 200

new_prop == "user_prop"

\* rand_name('new_prop_value') and rand_name('updated_new_prop_value')
NewPropValues == {"new_prop_value_1", "new_prop_value_2"}
UpdatedNewPropValues == {"updated_new_prop_value_1", "updated_new_prop_value_2"}
Scenarios == {"add", "remove", "replace"}

\* additional_properties of a response: a mapping from keys to values
NoProps == [k \in {} |-> ""]
PropMaps ==
    {NoProps}
    \cup {[k \in {new_prop} |-> v] : v \in NewPropValues \cup UpdatedNewPropValues}
    \cup {[k \in {"other_prop"} |-> v] : v \in NewPropValues}
    \cup {[k \in {new_prop, "other_prop"} |-> v] : v \in UpdatedNewPropValues}

\* What the image service may answer to update_image.
\* A status code as Python compares it: assertEqual tells the number 200 from
\* the string '200'.
IntStatus(n) == [type |-> "int", value |-> n]
StrStatus(n) == [type |-> "str", value |-> n]

StatusCodes == {IntStatus(OK), IntStatus(400), StrStatus(OK)}
Responses == [status_code : StatusCodes, additional_properties : PropMaps]

\* assertEqual(response.status_code, 200)
assert_status(response) == response.status_code = IntStatus(OK)

\* Variant: the value of the property is not compared.
assert_property_any_value(response, value) ==
    new_prop \in DOMAIN response.additional_properties

\* assertIn(new_prop, additional_properties), then assertEqual of its value
assert_property(response, value) ==
    /\ new_prop \in DOMAIN response.additional_properties
    /\ \A prop \in DOMAIN response.additional_properties :
          prop = new_prop => response.additional_properties[prop] = value

\* assertNotIn(new_prop, additional_properties)
assert_no_property(response) == new_prop \notin DOMAIN response.additional_properties

ImgIdle ==
    /\ imgScenario = "add"
    /\ imgValues = <<"new_prop_value_1", "updated_new_prop_value_1">>
    /\ imgPc = "start"
    /\ imgResponses = <<>>
    /\ imgVerdict = "running"

ImgInit ==
    /\ imgScenario \in Scenarios
    /\ imgValues \in NewPropValues \X UpdatedNewPropValues
    /\ imgPc = "start"
    /\ imgResponses = <<>>
    /\ imgVerdict = "running"

\* image = self.images_behavior.create_new_image()
CreateNewImage ==
    /\ imgPc = "start"
    /\ imgPc' = "created"
    /\ UNCHANGED <<imgScenario, imgValues, imgResponses, imgVerdict>>
    /\ UNCHANGED <<featVars, authVars, contVars>>

\* update_image(image.id_, add={new_prop: new_prop_value}) and the
\* assertions that follow it
UpdateAdd ==
    /\ imgPc = "created"
    /\ \E response \in Responses :
          /\ imgResponses' = Append(imgResponses, response)
          /\ IF ~assert_status(response)
             THEN imgPc' = "done" /\ imgVerdict' = "failed"
             ELSE IF imgScenario = "add"
             THEN /\ imgPc' = "done"
                  /\ imgVerdict' = IF assert_property(response, imgValues[1])
                                   THEN "passed" ELSE "failed"
             ELSE imgPc' = "added" /\ imgVerdict' = imgVerdict
    /\ UNCHANGED <<imgScenario, imgValues>>
    /\ UNCHANGED <<featVars, authVars, contVars>>

\* update_image(image.id_, remove={new_prop: new_prop_value}) and the
\* assertions that follow it
UpdateRemove ==
    /\ imgPc = "added"
    /\ imgScenario = "remove"
    /\ \E response \in Responses :
          /\ imgResponses' = Append(imgResponses, response)
          /\ imgVerdict' = IF assert_status(response) /\ assert_no_property(response)
                           THEN "passed" ELSE "failed"
    /\ imgPc' = "done"
    /\ UNCHANGED <<imgScenario, imgValues>>
    /\ UNCHANGED <<featVars, authVars, contVars>>

\* update_image(image.id_, replace={new_prop: updated_new_prop_value}) and
\* the assertions that follow it
UpdateReplace ==
    /\ imgPc = "added"
    /\ imgScenario = "replace"
    /\ \E response \in Responses :
          /\ imgResponses' = Append(imgResponses, response)
          /\ imgVerdict' = IF assert_status(response) /\ assert_property(response, imgValues[2])
                           THEN "passed" ELSE "failed"
    /\ imgPc' = "done"
    /\ UNCHANGED <<imgScenario, imgValues>>
    /\ UNCHANGED <<featVars, authVars, contVars>>

ImgNext ==
    \/ CreateNewImage
    \/ UpdateAdd
    \/ UpdateRemove
    \/ UpdateReplace

FeatNext ==
    \/ \E cls \in Classes : GetFeatures(cls)
    \/ \E cls \in Classes, reqs \in ReqLists : RequiredFeatures(cls, reqs)

\* The configuration is read from a file and stays as it is.
Init == FeatInit /\ AuthIdle /\ ContIdle /\ ImgIdle

Spec == Init /\ [][FeatNext]_vars

DriftInit ==
    /\ \E c \in DriftConfigs :
          /\ cfg_features = c[1]
          /\ cfg_excluded = c[2]
          /\ cfg_use_swift_info = c[3]
    /\ featCache = [c \in Classes |-> NotCached]
    /\ gateCache = [k \in GateKeys |-> NotCached]
    /\ last = NoCall

DriftNext ==
    \/ \E cls \in Classes : GetFeatures(cls)
    \/ \E cls \in Classes, reqs \in DriftReqLists : RequiredFeatures(cls, reqs)
    \/ Reconfigure

InitAuth == FeatIdle /\ AuthInit /\ ContIdle /\ ImgIdle

SpecAuth == InitAuth /\ [][AuthNext]_vars

InitContainers == FeatIdle /\ AuthIdle /\ ContIdle /\ ImgIdle

SpecContainers == InitContainers /\ [][ContNext]_vars

InitImages == FeatIdle /\ AuthIdle /\ ContIdle /\ ImgInit

SpecImages == InitImages /\ [][ImgNext]_vars

\* The configuration changes between calls.
InitDrift == DriftInit /\ AuthIdle /\ ContIdle /\ ImgIdle

SpecDrift == InitDrift /\ [][DriftNext]_vars

-----------------------------------------------------------------------------
\* Properties of the feature resolver and the gate

Base == "ObjectStorageFixture"
Returns == last.outcome = "return"
TokenSet(s) == Chars(Split(s))

\* Discovery was attempted and failed: get_auth_data or the server call raised.
DiscoveryFailed == last.fetch = "failed" \/ last.error = "AuthDataError"

\* unicode(s) does not raise.
Decodes(s) == s.isUnicode \/ IsAscii(s)

\* The tokens a setting of the configuration file holds.
ConfigTokens(s) == Range(SplitFrom(s.chars, UnicodeWhitespace, 1, <<>>, <<>>))

\* The tokens a 'requires features: a, b' reason lists, in order.
ListedTokens(reason) ==
    LET rest == SubSeq(reason, Len(RequiresPrefix) + 1, Len(reason))
    IN  SplitFrom([i \in 1..Len(rest) |-> IF rest[i] = 44 THEN 32 ELSE rest[i]],
                  {32}, 1, <<>>, <<>>)

HasRequiresPrefix(reason) ==
    /\ Len(reason) >= Len(RequiresPrefix)
    /\ SubSeq(reason, 1, Len(RequiresPrefix)) = RequiresPrefix

RequiredTokens == [i \in 1..Len(last.reqs) |-> last.reqs[i].chars]

\* The required tokens that equal no token of the resolved string.
MissingTokens ==
    {last.reqs[i].chars : i \in {j \in 1..Len(last.reqs) :
        \A t \in Range(Split(featCache[Base].features)) : ~eq(last.reqs[j], t)}}

IsSentinel(s) == eq(s, ALL_FEATURES) \/ eq(s, NO_FEATURES)

SkippedForMissing ==
    /\ last.op = "required_features"
    /\ Returns
    /\ last.decorator.skip
    /\ last.decorator.reason # SkipAllReason

\* C1 as stated: whenever excluded_features is ALL_FEATURES, whatever features
\* and the reported features are, get_features returns NO_FEATURES and the
\* gate skips every test (read of the calls that return).
C1_ExcludedAllAlwaysSkips ==
    (eq(cfg_excluded, ALL_FEATURES) /\ Returns) =>
        /\ last.op = "get_features" => last.features = NO_FEATURES
        /\ last.op = "required_features" =>
               /\ last.decorator.skip
               /\ featCache[Base].features = NO_FEATURES

\* C1 amended: with excluded_features ALL_FEATURES, a call that runs the body
\* of get_features returns exactly when discovery does not fail and features
\* is ALL_FEATURES or decodes as ASCII, and otherwise raises the discovery's
\* error or UnicodeDecodeError; a call answered from the cache returns.  What
\* is returned is ALL_FEATURES and the pass-through decorator when features is
\* ALL_FEATURES, else NO_FEATURES and the skip 'skipping all features', for
\* every list of required tokens.
C1_ExcludedAllSkipsUnlessFeaturesAll ==
    eq(cfg_excluded, ALL_FEATURES) =>
        LET all == eq(cfg_features, ALL_FEATURES)
        IN  /\ last.computed =>
                   (Returns <=> (~DiscoveryFailed /\ (all \/ Decodes(cfg_features))))
            /\ (last.outcome = "raise" /\ ~DiscoveryFailed) =>
                   last.error = "UnicodeDecodeError"
            /\ (last.op # "none" /\ ~last.computed) => Returns
            /\ (Returns /\ last.op = "get_features") =>
                   last.features = IF all THEN ALL_FEATURES ELSE NO_FEATURES
            /\ (Returns /\ last.op = "required_features") =>
                   /\ featCache[Base].features = IF all THEN ALL_FEATURES ELSE NO_FEATURES
                   /\ last.decorator = IF all THEN PassThrough ELSE Skip(SkipAllReason)

C1_Witness ==
    /\ cfg_excluded = ALL_FEATURES
    /\ cfg_features = Str(<<97, 32, 98>>)
    /\ cfg_use_swift_info
    /\ last.op = "required_features"
    /\ last.computed
    /\ Returns
    /\ last.reqs = <<Unicode(<<8364>>)>>
    /\ last.decorator = Skip(SkipAllReason)

\* C2: with neither setting the sentinel, a call whose discovery does not
\* fail returns a string whose tokens are (reported tokens union configured
\* tokens) minus excluded tokens, none of them twice; an exclusion token that
\* is not in the union is no error.
C2_UnionMinusExcluded ==
    (/\ ~eq(cfg_features, ALL_FEATURES)
     /\ ~eq(cfg_excluded, ALL_FEATURES)
     /\ last.op = "get_features"
     /\ last.computed
     /\ ~DiscoveryFailed)
    => /\ Returns
       /\ LET toks == Split(last.features)
          IN  /\ Chars(toks) = (Chars(last.reported) \cup ConfigTokens(cfg_features))
                                   \ ConfigTokens(cfg_excluded)
              /\ Cardinality(Chars(toks)) = Len(toks)

\* C3: whenever features is ALL_FEATURES, a call whose discovery does not fail
\* returns: get_features gives ALL_FEATURES and the gate the pass-through
\* decorator, whatever excluded_features, the reported features and the
\* required tokens are.
C3_FeaturesAllNeverSkips ==
    (eq(cfg_features, ALL_FEATURES) /\ last.op # "none" /\ ~DiscoveryFailed) =>
        /\ Returns
        /\ last.op = "get_features" => last.features = ALL_FEATURES
        /\ last.op = "required_features" => last.decorator = PassThrough

\* C4: with a resolved string that is neither sentinel, the gate returns a
\* decorator, the skip exactly when some required token is not among the
\* resolved tokens, else the pass-through.
C4_SkipIffSomeTokenMissing ==
    (/\ last.op = "required_features"
     /\ featCache[Base].cached
     /\ ~IsSentinel(featCache[Base].features))
    => /\ Returns
       /\ last.decorator.skip <=> (MissingTokens # {})
       /\ ~last.decorator.skip => last.decorator = PassThrough

\* C5 as stated: the reason of a skip for a missing feature lists exactly the
\* required tokens that are missing.
C5_ReasonListsOnlyMissing ==
    SkippedForMissing => Range(ListedTokens(last.decorator.reason)) = MissingTokens

\* C5 amended: the reason of a skip for a missing feature is 'requires
\* features: ' and all the required tokens, comma-separated in the order
\* given, the missing ones among them.
C5_ReasonListsAllRequired ==
    SkippedForMissing =>
        /\ HasRequiresPrefix(last.decorator.reason)
        /\ ListedTokens(last.decorator.reason) = RequiredTokens
        /\ last.decorator.reason =
               RequiresPrefix \o JoinChars(CommaSpace.chars, last.reqs)
        /\ MissingTokens # {}
        /\ MissingTokens \subseteq Range(ListedTokens(last.decorator.reason))

C5_Witness ==
    /\ SkippedForMissing
    /\ last.reqs = <<Str(Tok_a), Unicode(Tok_c)>>
    /\ TokenSet(featCache[Base].features) = {Tok_a, Tok_b}
    /\ MissingTokens = {Tok_c}

\* C6: with discovery enabled, a discovery that fails makes the call raise
\* SwiftInfoError and caches nothing, sentinels or not; with discovery
\* disabled no fetch is attempted.
C6_DiscoveryFailureRaisesSwiftInfoError ==
    /\ (cfg_use_swift_info /\ DiscoveryFailed) =>
           /\ last.outcome = "raise"
           /\ last.error = "SwiftInfoError"
           /\ ~featCache[IF last.op = "get_features" THEN last.cls ELSE Base].cached
    /\ ~cfg_use_swift_info => last.fetch = "none"

\* What the gate decides from the resolved string f.
Decides(f, reqs, d) ==
    IF eq(f, ALL_FEATURES) THEN d = PassThrough
    ELSE IF eq(f, NO_FEATURES) THEN d = Skip(SkipAllReason)
    ELSE d.skip <=> \E i \in 1..Len(reqs) : reqs[i].chars \notin TokenSet(f)

\* C8 as stated: once some get_features call has returned a value, every
\* later get_features call returns that value without recomputing it.
C8_EveryLaterCallSameValue ==
    [][\A c \in Classes :
          (featCache[c].cached /\ last' # last /\ last'.op = "get_features") =>
              /\ last'.outcome = "return"
              /\ last'.features = featCache[c].features
              /\ ~last'.computed]_vars

\* One step of the memoization contract.
C8_Step ==
    /\ \A c \in Classes : featCache[c].cached => featCache'[c] = featCache[c]
    /\ \A k \in GateKeys : gateCache[k].cached => gateCache'[k] = gateCache[k]
    /\ (last' # last /\ last'.op = "get_features" /\ featCache[last'.cls].cached) =>
           /\ last'.outcome = "return"
           /\ last'.features = featCache[last'.cls].features
           /\ ~last'.computed
    /\ (last' # last /\ last'.op = "required_features" /\ featCache[Base].cached) =>
           /\ ~last'.computed
           /\ featCache' = featCache
           /\ IF gateCache[<<last'.cls, last'.reqs>>].cached
              THEN /\ last'.outcome = "return"
                   /\ last'.decorator = gateCache[<<last'.cls, last'.reqs>>].decorator
              ELSE /\ last'.features = featCache[Base].features
                   /\ IF last'.outcome = "return"
                      THEN Decides(featCache[Base].features, last'.reqs, last'.decorator)
                      ELSE /\ last'.error = "UnicodeEncodeError"
                           /\ ~IsSentinel(featCache[Base].features)
                           /\ gateCache' = gateCache

\* C8 amended: a cached value is never replaced; a get_features call on a
\* class whose value is cached returns that value without running the body;
\* a gate evaluation for any class, once ObjectStorageFixture's value is
\* cached, does not run get_features' body and decides from that value (or
\* repeats its own cached decision), although the configuration changes in
\* between; where building the skip reason raises, it raises from that value
\* and nothing is cached.
C8_FirstAccessWinsPerClass == [][C8_Step]_vars

C8_Witness ==
    /\ last.op = "get_features"
    /\ last.cls = "Subclass"
    /\ Returns
    /\ ~last.computed
    /\ last.features = NO_FEATURES
    /\ cfg_features = ALL_FEATURES
    /\ featCache[Base].cached
    /\ featCache[Base].features # NO_FEATURES
    /\ gateCache[<<"Subclass", <<Str(Tok_a), Unicode(Tok_c)>>>>].cached

-----------------------------------------------------------------------------
\* Properties of create_temp_container

\* C7: every container that exists on the server has a cleanup registered, or
\* its cleanup has already run.
C7_EveryContainerHasCleanup ==
    \A container_name \in server : container_name \in Range(cleanups) \cup attempted

-----------------------------------------------------------------------------
\* Properties of authentication

SaioSpellings == {SaioTempauth, SaioTempauthMixed}

\* C9: a provider that returns None makes setUpClass fail with AssertionError
\* after one call of the provider, and the class gets no storage_url and no
\* auth_token; when access data is returned both come from that access data,
\* its own for 'saio_tempauth' in any letter case, else the identity
\* service's endpoint and the token id.
C9_AuthFailsFastAndUsesAccessData ==
    /\ authLast.gotNone =>
           /\ authLast.outcome = "raise"
           /\ authLast.error = "AssertionError"
           /\ authLast.calls = 1
           /\ ~authCache.cached
           /\ fixture[authLast.cls] =
                  [state |-> "failed", storage_url |-> "None", auth_token |-> "None"]
    /\ authLast.outcome = "return" =>
           /\ ~authLast.gotNone
           /\ authCache.cached
           /\ authLast.data = authCache.data
           /\ authLast.data \in AccessDatas
           /\ fixture[authLast.cls] =
                  [state |-> "ready", storage_url |-> authLast.storage_url,
                   auth_token |-> authLast.auth_token]
           /\ IF cfg_strategy \in SaioSpellings
              THEN /\ authLast.storage_url = authLast.data.storage_url
                   /\ authLast.auth_token = authLast.data.auth_token
              ELSE /\ <<IdentityServiceName, Region, authLast.storage_url>> \in authLast.data.catalog
                   /\ authLast.auth_token = authLast.data.token_id
    /\ \A c \in TestClasses :
           fixture[c].state # "ready" =>
               fixture[c].storage_url = "None" /\ fixture[c].auth_token = "None"
    /\ providerCalls <= Cardinality({c \in TestClasses : fixture[c].state # "new"})

C9_Witness ==
    /\ cfg_strategy = SaioTempauthMixed
    /\ authLast.gotNone
    /\ authLast.outcome = "raise"
    /\ providerCalls = 2
    /\ \A c \in TestClasses : fixture[c].state # "ready"

-----------------------------------------------------------------------------
\* Properties of the update-image tests

FinalResponse == imgResponses[Len(imgResponses)]
FinalProps == FinalResponse.additional_properties
AssertionsHold ==
    IF imgScenario = "add"
    THEN /\ Len(imgResponses) = 1
         /\ FinalResponse.status_code = [type |-> "int", value |-> 200]
         /\ "user_prop" \in DOMAIN FinalProps
         /\ FinalProps["user_prop"] = imgValues[1]
    ELSE IF imgScenario = "remove"
    THEN /\ Len(imgResponses) = 2
         /\ FinalResponse.status_code = [type |-> "int", value |-> 200]
         /\ "user_prop" \notin DOMAIN FinalProps
    ELSE /\ Len(imgResponses) = 2
         /\ FinalResponse.status_code = [type |-> "int", value |-> 200]
         /\ "user_prop" \in DOMAIN FinalProps
         /\ FinalProps["user_prop"] = imgValues[2]
         /\ FinalProps["user_prop"] # imgValues[1]

\* C10: a finished update-image test has passed exactly when the response to
\* the add is 200 with user_prop = V1 in its mapping (add), the second
\* response is 200 without user_prop (add, then remove), or the second
\* response is 200 with user_prop = V2, not V1 (add, then replace).
C10_ScenarioPassesIffAssertionsHold ==
    /\ imgPc = "done" => (imgVerdict = "passed" <=> AssertionsHold)
    /\ imgPc # "done" => imgVerdict = "running"

C10_Witness ==
    /\ imgPc = "done"
    /\ imgScenario = "replace"
    /\ imgVerdict = "passed"
    /\ imgValues = <<"new_prop_value_2", "updated_new_prop_value_1">>
    /\ imgResponses[1].additional_properties = [k \in {"user_prop"} |-> "new_prop_value_2"]
    /\ FinalProps = [k \in {"user_prop", "other_prop"} |-> "updated_new_prop_value_1"]

====
